---- MODULE Spec2Model ----
(***************************************************************************)
(* A model of the jsonnlp crate (src/src/lib.rs): the JSON-NLP document    *)
(* structs with their serde attributes, and the three entry points         *)
(* from_string, from_file and get_json.                                    *)
(*                                                                         *)
(* The derived Serialize / Deserialize implementations are modelled by a   *)
(* table of field descriptors per struct (one descriptor per field, in     *)
(* declaration order, carrying the field's wire key, its type, whether it  *)
(* has #[serde(default)] and whether it has skip_serializing_if =          *)
(* "String::is_empty") and by a generic writer and reader driven by that   *)
(* table.  JSON text is a sequence of lexemes.                             *)
(***************************************************************************)
EXTENDS Integers, Sequences, FiniteSets, TLC

VARIABLES
    m,          \* the JSONNLP value the caller holds
    focus,      \* the site and field of m that was given a sample value
    call,       \* the last call of get_json or from_string, with its result
    fpc,        \* from_file: where the call is
    stream,     \* from_file: the file at the path (whether it exists, its content)
    handle,     \* from_file: the File ("none", "open", "closed")
    delivered,  \* from_file: the number of lexemes read from the file so far
    eos,        \* from_file: whether a read has returned end-of-file
    fres        \* from_file: the result returned

vars == <<m, focus, call, fpc, stream, handle, delivered, eos, fres>>
codecVars == <<m, focus, call>>
fileVars == <<fpc, stream, handle, delivered, eos, fres>>

(***************************************************************************)
(* Bounds of the model.                                                    *)
(***************************************************************************)
\* The largest number of elements put in the collection under test.
MaxElems == 1
\* The number of lexemes one read of the file delivers to the BufReader.
ChunkLen == 2

(***************************************************************************)
(* Field descriptors.                                                      *)
(***************************************************************************)
\* the descriptor of a field whose rename attribute is lost
FNoRename(name, wire, kind, of, dflt, skip) ==
    [name |-> name, wire |-> name, kind |-> kind, of |-> of,
     dflt |-> dflt, skip |-> skip]

F(name, wire, kind, of, dflt, skip) ==
    [name |-> name, wire |-> wire, kind |-> kind, of |-> of,
     dflt |-> dflt, skip |-> skip]

\* a String with default and skip_serializing_if = "String::is_empty"
OptStr(name, wire) == F(name, wire, "str", "", TRUE, TRUE)
\* a String with neither attribute
ReqStr(name, wire) == F(name, wire, "str", "", FALSE, FALSE)
\* a scalar with #[serde(default)]
Dft(name, wire, kind) == F(name, wire, kind, "", TRUE, FALSE)
\* a scalar with no attribute
Req(name, wire, kind) == F(name, wire, kind, "", FALSE, FALSE)
\* a Vec<..> whose #[serde(default)] is lost
DftVecNoDefault(name, wire, of) ==
    [name |-> name, wire |-> wire, kind |-> "vec", of |-> of,
     dflt |-> FALSE, skip |-> FALSE]

\* Vec<..> with and without #[serde(default)]
DftVec(name, wire, of) == F(name, wire, "vec", of, TRUE, FALSE)
ReqVec(name, wire, of) == F(name, wire, "vec", of, FALSE, FALSE)
\* a nested struct with no attribute
ReqStruct(name, wire, of) == F(name, wire, "struct", of, FALSE, FALSE)

MetaFields == <<
    OptStr("conforms_to", "DC.conformsTo"),
    OptStr("author", "DC.author"),
    OptStr("created", "DC.created"),
    OptStr("date", "DC.date"),
    OptStr("source", "DC.source"),
    OptStr("language", "DC.language"),
    OptStr("creator", "DC.creator"),
    OptStr("publisher", "DC.publisher"),
    OptStr("title", "DC.title"),
    OptStr("description", "DC.description"),
    OptStr("identifier", "DC.identifier") >>

TokenFeaturesFields == <<
    Dft("overt", "overt", "bool"),
    Dft("stop", "stop", "bool"),
    Dft("alpha", "alpha", "bool"),
    Dft("number", "number", "u8"),
    OptStr("gender", "gender"),
    Dft("person", "person", "u8"),
    OptStr("tense", "tense"),
    Dft("perfect", "perfect", "bool"),
    Dft("continuous", "continuous", "bool"),
    Dft("progressive", "progressive", "bool"),
    OptStr("case", "case"),
    Dft("human", "human", "bool"),
    Dft("animate", "animate", "bool"),
    Dft("negated", "negated", "bool"),
    Dft("countable", "countable", "bool"),
    Dft("factive", "factive", "bool"),
    Dft("counterfactive", "counterfactive", "bool"),
    Dft("irregular", "irregular", "bool"),
    Dft("phrasalverb", "phrasalVerb", "bool"),
    OptStr("mood", "mood"),
    Dft("foreign", "foreign", "bool"),
    Dft("spaceafter", "spaceAfter", "bool") >>

TokenFields == <<
    Req("id", "id", "u64"),
    Req("sentence_id", "sentence_id", "u64"),
    ReqStr("text", "text"),
    ReqStr("lemma", "lemma"),
    OptStr("xpos", "xpos"),
    Dft("xpos_prob", "xpos_prob", "f64"),
    OptStr("upos", "upos"),
    Dft("upos_prob", "upos_prob", "f64"),
    OptStr("entity_iob", "entity_iob"),
    Dft("char_offset_begin", "characterOffsetBegin", "u64"),
    Dft("char_offset_end", "characterOffsetEnd", "u64"),
    OptStr("prop_id", "propID"),
    Dft("prop_id_prob", "propIDProbability", "f64"),
    Dft("frame_id", "frameID", "u64"),
    Dft("frame_id_prob", "frameIDProb", "f64"),
    Dft("wordnet_id", "wordNetID", "u64"),
    Dft("wordnet_id_prob", "wordNetIDProb", "f64"),
    Dft("verbnet_id", "verbNetID", "u64"),
    Dft("verbnet_id_prob", "verbNetIDProb", "f64"),
    OptStr("lang", "lang"),
    ReqStruct("features", "features", "TokenFeatures"),
    OptStr("shape", "shape"),
    OptStr("entity", "entity") >>

SentenceFields == <<
    Req("id", "id", "u64"),
    Dft("token_from", "tokenFrom", "u64"),
    Dft("token_to", "tokenTo", "u64"),
    DftVec("tokens", "tokens", "u64"),
    DftVec("clauses", "clauses", "u64"),
    OptStr("stype", "type"),
    OptStr("sentiment", "sentiment"),
    Dft("sentiment_prob", "sentimentProb", "f64") >>

ClauseFields == <<
    Req("id", "id", "u64"),
    Dft("sentence_id", "sentenceId", "u64"),
    Dft("token_from", "tokenFrom", "u64"),
    Dft("token_to", "tokenTo", "u64"),
    DftVec("tokens", "tokens", "u64"),
    Dft("main", "main", "bool"),
    Dft("gov", "gov", "u64"),
    Dft("head", "head", "u64"),
    Dft("neg", "neg", "bool"),
    OptStr("tense", "tense"),
    OptStr("mood", "mood"),
    Dft("perfect", "perfect", "bool"),
    Dft("continuous", "continuous", "bool"),
    OptStr("aspect", "aspect"),
    OptStr("voice", "voice"),
    OptStr("sentiment", "sentiment"),
    Dft("sentiment_prob", "sentimentProb", "f64") >>

DependencyFields == <<
    ReqStr("lab", "lab"),
    Req("gov", "gov", "u64"),
    Req("dep", "dep", "u64"),
    Dft("prob", "prob", "f64") >>

DependencyTreeFields == <<
    Dft("sentence_id", "sentenceId", "u64"),
    OptStr("style", "style"),
    DftVec("dependencies", "dependencies", "Dependency"),
    Dft("prob", "prob", "f64") >>

CoreferenceRepresentantiveFields == <<
    ReqVec("tokens", "tokens", "u64"),
    Req("head", "head", "u64") >>

CoreferenceReferentsFields == <<
    ReqVec("tokens", "tokens", "u64"),
    Req("head", "head", "u64"),
    Dft("prob", "prob", "f64") >>

CoreferenceFields == <<
    Req("id", "id", "u64"),
    ReqStruct("representative", "representative", "CoreferenceRepresentantive"),
    ReqVec("referents", "referents", "CoreferenceReferents") >>

ScopeFields == <<
    Req("id", "id", "u64"),
    ReqVec("gov", "gov", "u64"),
    ReqVec("dep", "dep", "u64"),
    ReqVec("terminals", "terminals", "u64") >>

ConstituentParseFields == <<
    Req("sentence_id", "sentenceId", "u64"),
    OptStr("ctype", "type"),
    OptStr("labeled_bracketing", "labeledBracketing"),
    Dft("prob", "prob", "f64"),
    DftVec("scopes", "scopes", "Scope") >>

ExpressionFields == <<
    Req("id", "id", "u64"),
    OptStr("etype", "type"),
    Dft("head", "head", "u64"),
    OptStr("dependency", "dependency"),
    Dft("token_from", "tokenFrom", "u64"),
    Dft("token_to", "tokenTo", "u64"),
    DftVec("tokens", "tokens", "u64"),
    Dft("prob", "prob", "f64") >>

ParagraphFields == <<
    Req("id", "id", "u64"),
    Dft("token_from", "tokenFrom", "u64"),
    Dft("token_to", "tokenTo", "u64"),
    DftVec("tokens", "tokens", "u64"),
    DftVec("sentences", "sentences", "u64") >>

AttributeFields == <<
    ReqStr("lab", "lab"),
    ReqStr("val", "val") >>

EntityFields == <<
    Req("id", "id", "u64"),
    OptStr("label", "label"),
    OptStr("etype", "type"),
    OptStr("url", "url"),
    Dft("head", "head", "u64"),
    Dft("token_from", "tokenFrom", "u64"),
    Dft("token_to", "tokenTo", "u64"),
    DftVec("tokens", "tokens", "u64"),
    Dft("triple_id", "tripleID", "u64"),
    OptStr("sentiment", "sentiment"),
    Dft("sentiment_prob", "sentimentProb", "f64"),
    Dft("count", "count", "u64"),
    DftVec("attributes", "attributes", "Attribute") >>

RelationFields == <<
    Req("id", "id", "u64"),
    OptStr("label", "label"),
    OptStr("rtype", "type"),
    OptStr("url", "url"),
    Dft("head", "head", "u64"),
    Dft("token_from", "tokenFrom", "u64"),
    Dft("token_to", "tokenTo", "u64"),
    DftVec("tokens", "tokens", "u64"),
    OptStr("sentiment", "sentiment"),
    Dft("sentiment_prob", "sentimentProb", "f64"),
    Dft("count", "count", "u64"),
    DftVec("attributes", "attributes", "Attribute") >>

TripleFields == <<
    Req("id", "id", "u64"),
    Dft("from_entity", "fromEntity", "u64"),
    Dft("to_entity", "toEntity", "u64"),
    Dft("rel", "rel", "u64"),
    DftVec("clause_id", "clauseID", "u64"),
    DftVec("sentence_id", "sentenceID", "u64"),
    Dft("directional", "directional", "bool"),
    Dft("event_id", "eventID", "u64"),
    Dft("temp_seq", "tempSeq", "u64"),
    Dft("prob", "prob", "f64"),
    Dft("syntactic", "syntactic", "bool"),
    Dft("implied", "implied", "bool"),
    Dft("presupposed", "presupposed", "bool"),
    Dft("count", "count", "u64") >>

DocumentFields == <<
    ReqStruct("meta", "meta", "Meta"),
    Req("id", "id", "u64"),
    DftVec("token_list", "tokenList", "Token"),
    DftVec("clauses", "clauses", "Clause"),
    DftVec("sentences", "sentences", "Sentence"),
    DftVec("paragraphs", "paragraphs", "Paragraph"),
    DftVec("dependency_trees", "dependencyTrees", "DependencyTree"),
    DftVec("coreferences", "coreferences", "Coreference"),
    DftVec("constituents", "constituents", "ConstituentParse"),
    DftVec("expressions", "expressions", "Expression"),
    DftVec("entities", "entities", "Entity"),
    DftVec("relations", "relations", "Relation"),
    DftVec("triples", "triples", "Triple") >>

JSONNLPFields == <<
    ReqStruct("meta", "meta", "Meta"),
    DftVec("docs", "docs", "Document") >>

Types == {"Meta", "TokenFeatures", "Token", "Sentence", "Clause", "Dependency",
          "DependencyTree", "CoreferenceRepresentantive", "CoreferenceReferents",
          "Coreference", "Scope", "ConstituentParse", "Expression", "Paragraph",
          "Attribute", "Entity", "Relation", "Triple", "Document", "JSONNLP"}

Fields(T) ==
    CASE T = "Meta" -> MetaFields
      [] T = "TokenFeatures" -> TokenFeaturesFields
      [] T = "Token" -> TokenFields
      [] T = "Sentence" -> SentenceFields
      [] T = "Clause" -> ClauseFields
      [] T = "Dependency" -> DependencyFields
      [] T = "DependencyTree" -> DependencyTreeFields
      [] T = "CoreferenceRepresentantive" -> CoreferenceRepresentantiveFields
      [] T = "CoreferenceReferents" -> CoreferenceReferentsFields
      [] T = "Coreference" -> CoreferenceFields
      [] T = "Scope" -> ScopeFields
      [] T = "ConstituentParse" -> ConstituentParseFields
      [] T = "Expression" -> ExpressionFields
      [] T = "Paragraph" -> ParagraphFields
      [] T = "Attribute" -> AttributeFields
      [] T = "Entity" -> EntityFields
      [] T = "Relation" -> RelationFields
      [] T = "Triple" -> TripleFields
      [] T = "Document" -> DocumentFields
      [] T = "JSONNLP" -> JSONNLPFields

Range(s) == {s[i] : i \in 1..Len(s)}
FieldNames(T) == {f.name : f \in Range(Fields(T))}
FieldOf(T, name) == CHOOSE f \in Range(Fields(T)) : f.name = name
\* the element type of a Vec field, as a (kind, of) pair
ElemKind(of) == IF of = "u64" THEN "u64" ELSE "struct"


(***************************************************************************)
(* Values held in memory.  A struct is a function from its field names to  *)
(* the fields' values; String is a string, u64 and u8 are naturals, bool   *)
(* is a BOOLEAN, Vec is a sequence.  An f64 is either finite (m counts     *)
(* tenths) or one of the non-finite values.                                *)
(***************************************************************************)
Fin(t) == [cls |-> "fin", m |-> t]
NaN == [cls |-> "nan", m |-> 0]
Infinity == [cls |-> "inf", m |-> 0]

\* the largest u8; a u64 is not bounded here: no number of the model
\* comes near 2^64
U8Max == 255

(***************************************************************************)
(* JSON values (what the Serializer is handed, and what a generic reader   *)
(* sees) and JSON text (a sequence of lexemes).                            *)
(***************************************************************************)
Node(t, s, n, c) == [t |-> t, s |-> s, n |-> n, c |-> c]
JStr(s) == Node("str", s, 0, <<>>)
JInt(n) == Node("int", "", n, <<>>)
JFlt(n) == Node("flt", "", n, <<>>)
JBool(b) == Node(IF b THEN "true" ELSE "false", "", 0, <<>>)
JNull == Node("null", "", 0, <<>>)
JArr(c) == Node("arr", "", 0, c)
JObj(c) == Node("obj", "", 0, c)
JMem(k, v) == Node("mem", k, 0, <<v>>)

Lex(t, s, n) == [t |-> t, s |-> s, n |-> n]
Punct(t) == Lex(t, "", 0)
EOF == Punct("eof")
Peek(toks, pos) == IF pos > Len(toks) THEN EOF ELSE toks[pos]

RECURSIVE SerVal(_, _, _), Write(_), Cat(_, _, _)

(***************************************************************************)
(* Serialize, as derived: the fields in declaration order, each under its  *)
(* wire key, a field with skip_serializing_if = "String::is_empty" left    *)
(* out when its value is the empty string.                                 *)
(***************************************************************************)
IsKept(x) == x.t # "skipped"

\* a serializer that ignores skip_serializing_if
SerFieldsKeepEmpty(fs, v) ==
    [i \in 1..Len(fs) |->
        JMem(fs[i].wire, SerVal(fs[i].kind, fs[i].of, v[fs[i].name]))]

\* a serializer that skips empty lists as it skips empty strings
SerFieldsSkipEmptyLists(fs, v) ==
    SelectSeq([i \in 1..Len(fs) |->
                 IF (IF fs[i].skip THEN v[fs[i].name] = ""
                     ELSE fs[i].kind = "vec" /\ v[fs[i].name] = <<>>)
                 THEN Node("skipped", "", 0, <<>>)
                 ELSE JMem(fs[i].wire, SerVal(fs[i].kind, fs[i].of, v[fs[i].name]))],
              IsKept)

SerFields(fs, v) ==
    SelectSeq([i \in 1..Len(fs) |->
                 IF fs[i].skip /\ v[fs[i].name] = ""
                 THEN Node("skipped", "", 0, <<>>)
                 ELSE JMem(fs[i].wire, SerVal(fs[i].kind, fs[i].of, v[fs[i].name]))],
              IsKept)

SerStruct(T, v) == JObj(SerFields(Fields(T), v))

\* serde_json writes a non-finite f64 as null
SerVal(kind, of, v) ==
    CASE kind = "str" -> JStr(v)
      [] kind \in {"u64", "u8"} -> JInt(v)
      [] kind = "f64" -> IF v.cls = "fin" THEN JFlt(v.m) ELSE JNull
      [] kind = "bool" -> JBool(v)
      [] kind = "vec" ->
            JArr([i \in 1..Len(v) |-> SerVal(ElemKind(of), of, v[i])])
      [] kind = "struct" -> SerStruct(of, v)

\* the concatenation of ss[lo], .. , ss[hi]
Cat(ss, lo, hi) ==
    CASE lo > hi -> <<>>
      [] lo = hi -> ss[lo]
      [] OTHER -> Cat(ss, lo, (lo + hi) \div 2) \o Cat(ss, (lo + hi) \div 2 + 1, hi)

\* the compact text of a JSON value: the members of an object and the
\* elements of an array are separated by commas
Write(j) ==
    CASE j.t \in {"arr", "obj"} ->
            <<Punct(IF j.t = "arr" THEN "[" ELSE "{")>>
            \o Cat([i \in 1..Len(j.c) |->
                      IF i > 1 THEN <<Punct(",")>> \o Write(j.c[i])
                      ELSE Write(j.c[i])], 1, Len(j.c))
            \o <<Punct(IF j.t = "arr" THEN "]" ELSE "}")>>
      [] j.t = "mem" -> <<Lex("str", j.s, 0), Punct(":")>> \o Write(j.c[1])
      [] OTHER -> <<Lex(j.t, j.s, j.n)>>

(***************************************************************************)
(* Reading.  The reader goes through the text once, from left to right,    *)
(* and stops at the first error.  Its result is ok with the value read and *)
(* the position of the next lexeme, or an error with the position of the   *)
(* lexeme at which the error was raised (Len + 1 when that is the end of   *)
(* the input).                                                             *)
(*                                                                         *)
(* A reader state holds the position and the stack of the objects and      *)
(* arrays that are open, each with what was read of it so far (acc).  The  *)
(* mode of a frame says what is being read: "map" and "seq" a struct T     *)
(* from an object and from an array, "vec" a Vec<T>, "anymap" and "anyarr" *)
(* a value that is ignored.  Step reads the next item of the innermost     *)
(* frame; Read repeats Step until the value is complete.                   *)
(***************************************************************************)
Ok(val, pos) == [ok |-> TRUE, val |-> val, pos |-> pos]
Err(pos) == [ok |-> FALSE, val |-> <<>>, pos |-> pos]

Going(pos, stack) == [done |-> FALSE, pos |-> pos, stack |-> stack, res |-> Err(0)]
Done(res) == [done |-> TRUE, pos |-> 0, stack |-> <<>>, res |-> res]

Frame(mode, T, acc, sep, key) ==
    [mode |-> mode, T |-> T, acc |-> acc, sep |-> sep, key |-> key]
Open(mode, T) == Frame(mode, T, <<>>, FALSE, "")
Closer(mode) == IF mode \in {"map", "anymap"} THEN "}" ELSE "]"

\* the element of a singleton set; { e : x \in {v} } evaluates v once
\* however often e uses x
One(S) == CHOOSE x \in S : TRUE

Seen(acc, name) == \E i \in 1..Len(acc) : acc[i].k = name
Got(acc, name) == acc[CHOOSE i \in 1..Len(acc) : acc[i].k = name].v

\* Default::default() of a field's type
DefaultOf(kind) ==
    CASE kind = "str" -> ""
      [] kind \in {"u64", "u8"} -> 0
      [] kind = "f64" -> Fin(0)
      [] kind = "bool" -> FALSE
      [] kind = "vec" -> <<>>

\* the end of a struct's map or sequence when no field has a default
FinishStrict(T, acc, pos) ==
    IF \E f \in Range(Fields(T)) : ~Seen(acc, f.name)
    THEN Err(pos)
    ELSE Ok([n \in FieldNames(T) |-> Got(acc, n)], pos + 1)

\* the end of a struct's map or sequence: a field that was not read takes
\* its default when it has #[serde(default)] and is an error otherwise
Finish(T, acc, pos) ==
    IF \E f \in Range(Fields(T)) : ~f.dflt /\ ~Seen(acc, f.name)
    THEN Err(pos)
    ELSE Ok([n \in FieldNames(T) |->
                IF Seen(acc, n) THEN Got(acc, n)
                ELSE DefaultOf(FieldOf(T, n).kind)], pos + 1)

\* a scalar of the declared type: no lexeme of another JSON type is
\* accepted; an integer is accepted for an f64, a float is not accepted for
\* an integer
Scalar(kind, tk, pos) ==
    CASE kind = "str" -> IF tk.t = "str" THEN Ok(tk.s, pos + 1) ELSE Err(pos)
      [] kind = "u64" -> IF tk.t = "int" /\ tk.n >= 0
                         THEN Ok(tk.n, pos + 1) ELSE Err(pos)
      [] kind = "u8" -> IF tk.t = "int" /\ tk.n >= 0 /\ tk.n <= U8Max
                        THEN Ok(tk.n, pos + 1) ELSE Err(pos)
      [] kind = "f64" -> CASE tk.t = "int" -> Ok(Fin(10 * tk.n), pos + 1)
                           [] tk.t = "flt" -> Ok(Fin(tk.n), pos + 1)
                           [] OTHER -> Err(pos)
      [] kind = "bool" -> CASE tk.t = "true" -> Ok(TRUE, pos + 1)
                            [] tk.t = "false" -> Ok(FALSE, pos + 1)
                            [] OTHER -> Err(pos)
      [] kind = "any" ->
            IF tk.t \in {"str", "int", "flt", "true", "false", "null"}
            THEN Ok(Node(tk.t, tk.s, tk.n, <<>>), pos + 1) ELSE Err(pos)

\* value v, complete before pos, goes to the innermost frame; with no frame
\* open it is the value read
Deliver(stack, v, pos) ==
    IF stack = <<>> THEN Done(Ok(v, pos))
    ELSE LET fr == stack[Len(stack)]
             acc2 == CASE fr.mode = "map" ->
                            IF fr.key = "" THEN fr.acc
                            ELSE Append(fr.acc, [k |-> fr.key, v |-> v])
                       [] fr.mode = "seq" ->
                            Append(fr.acc, [k |-> Fields(fr.T)[Len(fr.acc) + 1].name,
                                            v |-> v])
                       [] fr.mode = "anymap" -> Append(fr.acc, JMem(fr.key, v))
                       [] OTHER -> Append(fr.acc, v) IN
         Going(pos, [stack EXCEPT ![Len(stack)] =
                        Frame(fr.mode, fr.T, acc2, TRUE, "")])

\* a value of the declared type starts at pos: a scalar is read, an object
\* or an array is opened.  A struct is read from an object (visit_map) and
\* also from an array (visit_seq).
Begin(toks, stack, kind, of, pos) ==
    LET tk == Peek(toks, pos) IN
    CASE kind = "vec" ->
            IF tk.t = "[" THEN Going(pos + 1, Append(stack, Open("vec", of)))
            ELSE Done(Err(pos))
      [] kind = "struct" ->
            CASE tk.t = "{" -> Going(pos + 1, Append(stack, Open("map", of)))
              [] tk.t = "[" -> Going(pos + 1, Append(stack, Open("seq", of)))
              [] OTHER -> Done(Err(pos))
      [] kind = "any" /\ tk.t = "[" -> Going(pos + 1, Append(stack, Open("anyarr", "")))
      [] kind = "any" /\ tk.t = "{" -> Going(pos + 1, Append(stack, Open("anymap", "")))
      [] OTHER ->
            One({ IF r.ok THEN Deliver(stack, r.val, r.pos) ELSE Done(r)
                  : r \in {Scalar(kind, tk, pos)} })

\* the closing bracket of the innermost frame is at pos
End(stack, pos) ==
    LET fr == stack[Len(stack)]
        rest == SubSeq(stack, 1, Len(stack) - 1) IN
    One({ IF r.ok THEN Deliver(rest, r.val, r.pos) ELSE Done(r)
          : r \in {CASE fr.mode \in {"map", "seq"} -> Finish(fr.T, fr.acc, pos)
                     [] fr.mode = "vec" -> Ok(fr.acc, pos + 1)
                     [] fr.mode = "anyarr" -> Ok(JArr(fr.acc), pos + 1)
                     [] fr.mode = "anymap" -> Ok(JObj(fr.acc), pos + 1)} })

\* the next item of a struct read from an object: a key is matched against
\* the wire keys; an unknown key's value is read and ignored; a key met
\* twice is an error
MapItem(toks, stack, fr, pos) ==
    LET tk == Peek(toks, pos)
        known == {f \in Range(Fields(fr.T)) : f.wire = tk.s} IN
    CASE tk.t # "str" -> Done(Err(pos))
      [] tk.t = "str" /\ (\E f \in known : Seen(fr.acc, f.name)) -> Done(Err(pos))
      [] tk.t = "str" /\ Peek(toks, pos + 1).t # ":" -> Done(Err(pos + 1))
      [] OTHER ->
            IF known = {}
            THEN Begin(toks, stack, "any", "", pos + 2)
            ELSE Begin(toks, [stack EXCEPT ![Len(stack)].key = One(known).name],
                       One(known).kind, One(known).of, pos + 2)

\* the next item of a struct read from an array: the fields in declaration
\* order
SeqItem(toks, stack, fr, pos) ==
    LET fs == Fields(fr.T)
        i == Len(fr.acc) + 1 IN
    IF i > Len(fs) THEN Done(Err(pos))
    ELSE Begin(toks, stack, fs[i].kind, fs[i].of, pos)

AnyMapItem(toks, stack, fr, pos) ==
    LET tk == Peek(toks, pos) IN
    CASE tk.t # "str" -> Done(Err(pos))
      [] tk.t = "str" /\ Peek(toks, pos + 1).t # ":" -> Done(Err(pos + 1))
      [] OTHER -> Begin(toks, [stack EXCEPT ![Len(stack)].key = tk.s], "any", "", pos + 2)

Item(toks, stack, fr, pos) ==
    CASE fr.mode = "map" -> MapItem(toks, stack, fr, pos)
      [] fr.mode = "seq" -> SeqItem(toks, stack, fr, pos)
      [] fr.mode = "vec" -> Begin(toks, stack, ElemKind(fr.T), fr.T, pos)
      [] fr.mode = "anyarr" -> Begin(toks, stack, "any", "", pos)
      [] fr.mode = "anymap" -> AnyMapItem(toks, stack, fr, pos)

\* one step in the innermost frame: after an item, a comma or the closing
\* bracket; after a comma, an item; after the opening bracket, either
Step(toks, st) ==
    LET fr == st.stack[Len(st.stack)]
        tk == Peek(toks, st.pos) IN
    IF fr.sep
    THEN CASE tk.t = "," -> Item(toks, st.stack, fr, st.pos + 1)
           [] tk.t = Closer(fr.mode) -> End(st.stack, st.pos)
           [] OTHER -> Done(Err(st.pos))
    ELSE IF tk.t = Closer(fr.mode) THEN End(st.stack, st.pos)
         ELSE Item(toks, st.stack, fr, st.pos)

\* Step repeated until the value is complete: Iter(n, ..) makes up to 2^n
\* steps, and every step but the last reads a lexeme
RECURSIVE Iter(_, _, _)
Iter(n, toks, st) ==
    IF st.done THEN st
    ELSE IF n = 0 THEN Step(toks, st)
    ELSE One({ Iter(n - 1, toks, s2) : s2 \in {Iter(n - 1, toks, st)} })

Read(kind, of, toks) ==
    Iter(CHOOSE n \in 0..20 : 2^n > Len(toks) /\ (n = 0 \/ 2^(n - 1) <= Len(toks)),
         toks, Begin(toks, <<>>, kind, of, 1)).res

\* any JSON value at the head of toks
AnyVal(toks) == Read("any", "", toks)

(***************************************************************************)
(* The three entry points.                                                 *)
(***************************************************************************)
Result(kind, val) == [kind |-> kind, val |-> val]

\* serde_json::from_str::<JSONNLP>: one JSONNLP value, then the end of the
\* input.  need is the number of lexemes that had to be read.
Decode(toks) ==
    One({ IF ~r.ok \/ r.pos <= Len(toks)
          THEN [ok |-> FALSE, val |-> <<>>, need |-> r.pos]
          ELSE [ok |-> TRUE, val |-> r.val, need |-> Len(toks) + 1]
          : r \in {Read("struct", "JSONNLP", toks)} })

\* from_string unwraps the decoder's result: an Err panics
from_string(json) ==
    One({ IF r.ok THEN Result("Ok", r.val) ELSE Result("panic", <<>>)
          : r \in {Decode(json)} })

\* get_json: serde_json::to_string, unwrapped; it has no error for these
\* types
get_json(j) == Result("Ok", Write(SerStruct("JSONNLP", j)))

(***************************************************************************)
(* The models and the texts the entry points are given.                    *)
(*                                                                         *)
(* A site is a place of the document tree, named by the path of fields     *)
(* that leads to it from the JSONNLP value.  A model is built around one   *)
(* site: the struct at the site has every field at a base value ("zero":   *)
(* the zero values, "full": non-zero values, no string empty) but one,     *)
(* which takes a sample value of its type; so do the structs above it.     *)
(***************************************************************************)
Sites == {
    <<>>, <<"meta">>, <<"docs">>, <<"docs", "meta">>,
    <<"docs", "token_list">>, <<"docs", "token_list", "features">>,
    <<"docs", "clauses">>, <<"docs", "sentences">>, <<"docs", "paragraphs">>,
    <<"docs", "dependency_trees">>,
    <<"docs", "dependency_trees", "dependencies">>,
    <<"docs", "coreferences">>, <<"docs", "coreferences", "representative">>,
    <<"docs", "coreferences", "referents">>,
    <<"docs", "constituents">>, <<"docs", "constituents", "scopes">>,
    <<"docs", "expressions">>,
    <<"docs", "entities">>, <<"docs", "entities", "attributes">>,
    <<"docs", "relations">>, <<"docs", "relations", "attributes">>,
    <<"docs", "triples">> }

RECURSIVE TypeAt(_, _), Base(_, _), BuildAt(_, _, _, _), TweakAt(_, _, _, _)
RECURSIVE SubAt(_, _, _), ValAt(_, _, _)

TypeAt(T, path) ==
    IF path = <<>> THEN T ELSE TypeAt(FieldOf(T, Head(path)).of, Tail(path))
SiteType(site) == TypeAt("JSONNLP", site)

BaseVal(f, b) ==
    CASE f.kind = "str" -> IF b = "zero" THEN "" ELSE "x"
      [] f.kind = "u64" -> IF b = "zero" THEN 0 ELSE 7
      [] f.kind = "u8" -> IF b = "zero" THEN 0 ELSE 3
      [] f.kind = "f64" -> IF b = "zero" THEN Fin(0) ELSE Fin(5)
      [] f.kind = "bool" -> b # "zero"
      [] f.kind = "vec" -> IF b = "zero" \/ f.of # "u64" THEN <<>> ELSE <<1, 2>>
      [] f.kind = "struct" -> Base(f.of, b)

Base(T, b) == [n \in FieldNames(T) |-> BaseVal(FieldOf(T, n), b)]

Samples(f, b) ==
    CASE f.kind = "str" -> {"", "y"}
      [] f.kind = "u64" -> {0, 9}
      [] f.kind = "u8" -> {0, U8Max}
      [] f.kind = "f64" -> {Fin(0), Fin(15), NaN, Infinity}
      [] f.kind = "bool" -> {FALSE, TRUE}
      [] f.kind = "vec" ->
            IF f.of = "u64" THEN {<<>>, <<3>>}
            ELSE {[i \in 1..k |-> Base(f.of, b)] : k \in 0..MaxElems}
      [] f.kind = "struct" -> {Base(f.of, b)}

\* the model with struct e at the end of path, one element in each
\* collection on the way
BuildAt(T, path, e, b) ==
    IF path = <<>> THEN e
    ELSE LET f == FieldOf(T, Head(path))
             sub == BuildAt(f.of, Tail(path), e, b) IN
         [Base(T, b) EXCEPT ![f.name] = IF f.kind = "vec" THEN <<sub>> ELSE sub]

\* the struct at the end of path in model v (the first element of each
\* collection on the way)
ValAt(T, path, v) ==
    IF path = <<>> THEN v
    ELSE LET f == FieldOf(T, Head(path))
             x == v[f.name] IN
         ValAt(f.of, Tail(path), IF f.kind = "vec" THEN x[1] ELSE x)

(***************************************************************************)
(* JSON objects: looking a key up, and the changes made to a rendered      *)
(* object to obtain the other input texts.                                 *)
(***************************************************************************)
HasKey(obj, k) == \E i \in 1..Len(obj.c) : obj.c[i].s = k
Member(obj, k) == obj.c[CHOOSE i \in 1..Len(obj.c) : obj.c[i].s = k].c[1]
Keys(obj) == {obj.c[i].s : i \in 1..Len(obj.c)}

\* the JSON object at the end of path in the JSON value j
SubAt(T, path, j) ==
    IF path = <<>> THEN j
    ELSE LET f == FieldOf(T, Head(path))
             x == Member(j, f.wire) IN
         SubAt(f.of, Tail(path), IF f.kind = "vec" THEN x.c[1] ELSE x)

Tweak(kind, keys, key, val) == [kind |-> kind, keys |-> keys, key |-> key, val |-> val]
NoTweak == Tweak("none", {}, "", JNull)

Apply(obj, tw) ==
    CASE tw.kind = "drop" ->
            LET Keep(x) == x.s \notin tw.keys IN JObj(SelectSeq(obj.c, Keep))
      [] tw.kind = "set" ->
            IF HasKey(obj, tw.key)
            THEN JObj([i \in 1..Len(obj.c) |->
                        IF obj.c[i].s = tw.key THEN JMem(tw.key, tw.val) ELSE obj.c[i]])
            ELSE JObj(Append(obj.c, JMem(tw.key, tw.val)))
      [] tw.kind = "rekey" ->
            JObj([i \in 1..Len(obj.c) |->
                    IF obj.c[i].s = tw.key THEN JMem(tw.val.s, obj.c[i].c[1])
                    ELSE obj.c[i]])
      [] tw.kind = "extra" -> JObj(Append(obj.c, JMem(tw.key, tw.val)))
      [] tw.kind = "dup" ->
            IF HasKey(obj, tw.key)
            THEN JObj(Append(obj.c, JMem(tw.key, Member(obj, tw.key))))
            ELSE obj
      [] OTHER -> obj

\* j with the object at the end of path changed by tw
TweakAt(T, path, j, tw) ==
    IF path = <<>> THEN Apply(j, tw)
    ELSE LET f == FieldOf(T, Head(path)) IN
         JObj([i \in 1..Len(j.c) |->
            IF j.c[i].s # f.wire THEN j.c[i]
            ELSE LET x == j.c[i].c[1] IN
                 JMem(f.wire,
                      IF f.kind = "vec"
                      THEN JArr([e \in 1..Len(x.c) |->
                                   IF e = 1 THEN TweakAt(f.of, Tail(path), x.c[1], tw)
                                   ELSE x.c[e]])
                      ELSE TweakAt(f.of, Tail(path), x, tw))])

\* changes made to the text itself
Damage(text, tw) ==
    CASE tw.kind = "cut" -> SubSeq(text, 1, Len(text) - tw.val.n)
      [] tw.kind = "garble" ->
            [i \in 1..Len(text) |-> IF i = tw.val.n THEN Punct("bad") ELSE text[i]]
      [] tw.kind = "trail" -> Append(text, Lex(tw.val.t, tw.val.s, tw.val.n))
      [] OTHER -> text

\* an input text: the text get_json returned, changed by tw at site
InputText(text, site, tw) ==
    IF tw.kind \in {"none", "cut", "garble", "trail"} THEN Damage(text, tw)
    ELSE Write(TweakAt("JSONNLP", site, AnyVal(text).val, tw))

\* JSON values of every type, one of which is put under a field's key
OtherVals == {JStr("s"), JInt(1), JInt(0 - 1), JInt(U8Max + 1), JFlt(15),
              JBool(TRUE), JNull, JArr(<<>>), JArr(<<JInt(1)>>), JObj(<<>>)}

Alias(f) == IF f.name # f.wire THEN f.name ELSE "alias"

\* the changes tried on the rendering of a model: all of them on a model
\* of base "full" (every key is in its text), three on one of base "zero"
Tweaks(site, fld, b) ==
    LET T == SiteType(site)
        f == FieldOf(T, fld) IN
    IF b = "zero"
    THEN {NoTweak, Tweak("drop", {f.wire}, "", JNull),
          Tweak("extra", {}, "x-unknown", JObj(<<JMem("id", JArr(<<JNull>>))>>))}
    ELSE
    {NoTweak,
     Tweak("drop", {f.wire}, "", JNull),
     Tweak("drop", {g.wire : g \in {h \in Range(Fields(T)) : h.dflt}}, "", JNull),
     Tweak("rekey", {}, f.wire, JStr(Alias(f))),
     Tweak("extra", {}, "x-unknown", JObj(<<JMem("id", JArr(<<JNull>>))>>)),
     Tweak("dup", {}, f.wire, JNull),
     Tweak("cut", {}, "", JInt(1)), Tweak("cut", {}, "", JInt(3)),
     Tweak("garble", {}, "", JInt(1)), Tweak("garble", {}, "", JInt(4)),
     Tweak("trail", {}, "", JInt(1))}
    \cup {Tweak("set", {}, f.wire, j) : j \in OtherVals}


(***************************************************************************)
(* The codec: a caller holds a model, renders it with get_json and gives   *)
(* from_string the text, or a text obtained from it.                       *)
(***************************************************************************)
NoResult == Result("none", <<>>)
NoCall == [op |-> "none", tw |-> NoTweak, text |-> <<>>, res |-> NoResult]
FileIdle ==
    /\ fpc = "idle"
    /\ stream = [exists |-> FALSE, content |-> <<>>]
    /\ handle = "none"
    /\ delivered = 0
    /\ eos = FALSE
    /\ fres = NoResult

Init ==
    /\ \E site \in Sites, b \in {"zero", "full"} :
         \E fld \in FieldNames(SiteType(site)) :
           \E v \in Samples(FieldOf(SiteType(site), fld), b) :
             /\ m = BuildAt("JSONNLP", site,
                            [Base(SiteType(site), b) EXCEPT ![fld] = v], b)
             /\ focus = [site |-> site, fld |-> fld, base |-> b]
    /\ call = NoCall
    /\ FileIdle

GetJson ==
    /\ call.op = "none"
    /\ call' = [op |-> "get_json", tw |-> NoTweak, text |-> <<>>, res |-> get_json(m)]
    /\ UNCHANGED <<m, focus>>
    /\ UNCHANGED fileVars

FromString ==
    /\ call.op = "get_json"
    /\ \E tw \in Tweaks(focus.site, focus.fld, focus.base) :
         \E json \in {InputText(call.res.val, focus.site, tw)} :
           call' = [op |-> "from_string", tw |-> tw, text |-> json,
                    res |-> from_string(json)]
    /\ UNCHANGED <<m, focus>>
    /\ UNCHANGED fileVars

Next == GetJson \/ FromString

Spec == Init /\ [][Next]_vars


(***************************************************************************)
(* from_file.  File::open(path)? either fails, and the error is returned,  *)
(* or yields the File, which is moved into a BufReader and that into       *)
(* serde_json::from_reader.  from_reader decodes while it reads: it asks   *)
(* the reader for more input when the decoder has used up what was         *)
(* delivered, and it returns at the first error, of the decoder or of a    *)
(* read; after the value it reads on to the end of the file.  The reader   *)
(* is dropped, and the File closed, when from_reader returns.              *)
(***************************************************************************)
Min(a, b) == IF a < b THEN a ELSE b

\* the texts of the files read: renderings of two small models and the
\* texts obtained from them
FileModels ==
    {[site |-> <<>>, fld |-> "docs", v |-> Base("JSONNLP", "zero")],
     [site |-> <<"meta">>, fld |-> "author",
      v |-> [Base("JSONNLP", "zero") EXCEPT !["meta"]["author"] = "y"]]}
FileTexts ==
    UNION {{InputText(get_json(fm.v).val, fm.site, tw) :
               tw \in Tweaks(fm.site, fm.fld, "full")} : fm \in FileModels}

\* a decoder that waits for the whole text
DecoderAtEnd(content, n) == "more"

\* the decoder on the lexemes delivered so far: "error" when it has met an
\* error among them, "more" when it needs the next one
Decoder(content, n) ==
    One({ IF ~r.ok /\ r.need <= n THEN "error" ELSE "more"
          : r \in {Decode(One({SubSeq(content, 1, n)}))} })

FileInit ==
    /\ m = Base("JSONNLP", "zero")
    /\ focus = [site |-> <<>>, fld |-> "docs", base |-> "zero"]
    /\ call = NoCall
    /\ fpc = "start"
    /\ \/ stream = [exists |-> FALSE, content |-> <<>>]
       \/ \E t \in FileTexts : stream = [exists |-> TRUE, content |-> t]
    /\ handle = "none"
    /\ delivered = 0
    /\ eos = FALSE
    /\ fres = NoResult

\* let file = File::open(path)?;
FileOpen ==
    /\ fpc = "start"
    /\ IF stream.exists
       THEN /\ handle' = "open"
            /\ fpc' = "reading"
            /\ fres' = fres
       ELSE /\ handle' = handle
            /\ fpc' = "returned"
            /\ fres' = Result("IOError", <<>>)
    /\ UNCHANGED <<stream, delivered, eos>>
    /\ UNCHANGED codecVars

\* the decoder meets an error in what was delivered
FileDecodeError ==
    /\ fpc = "reading"
    /\ Decoder(stream.content, delivered) = "error"
    /\ fres' = Result("MalformedInput", <<>>)
    /\ fpc' = "decided"
    /\ UNCHANGED <<stream, handle, delivered, eos>>
    /\ UNCHANGED codecVars

\* a read delivers the next lexemes
FileRead ==
    /\ fpc = "reading"
    /\ Decoder(stream.content, delivered) = "more"
    /\ delivered < Len(stream.content)
    /\ delivered' = Min(delivered + ChunkLen, Len(stream.content))
    /\ UNCHANGED <<fpc, stream, handle, eos, fres>>
    /\ UNCHANGED codecVars

\* a read fails
FileReadError ==
    /\ fpc = "reading"
    /\ Decoder(stream.content, delivered) = "more"
    /\ fres' = Result("IOError", <<>>)
    /\ fpc' = "decided"
    /\ UNCHANGED <<stream, handle, delivered, eos>>
    /\ UNCHANGED codecVars

\* a read returns end-of-file: the decoder has the whole text
FileEnd ==
    /\ fpc = "reading"
    /\ Decoder(stream.content, delivered) = "more"
    /\ delivered = Len(stream.content)
    /\ eos' = TRUE
    /\ \E r \in {Decode(stream.content)} :
         fres' = IF r.ok THEN Result("Ok", r.val) ELSE Result("MalformedInput", <<>>)
    /\ fpc' = "decided"
    /\ UNCHANGED <<stream, handle, delivered>>
    /\ UNCHANGED codecVars

\* a return that closes the file on success only
FileReturnLeak ==
    /\ fpc = "decided"
    /\ handle' = IF fres.kind = "Ok" THEN "closed" ELSE handle
    /\ fpc' = "returned"
    /\ UNCHANGED <<stream, delivered, eos, fres>>
    /\ UNCHANGED codecVars

\* from_reader returns, dropping the reader; `?` passes an error on
FileReturn ==
    /\ fpc = "decided"
    /\ handle' = "closed"
    /\ fpc' = "returned"
    /\ UNCHANGED <<stream, delivered, eos, fres>>
    /\ UNCHANGED codecVars

FileNext ==
    \/ FileOpen
    \/ FileDecodeError
    \/ FileRead
    \/ FileReadError
    \/ FileEnd
    \/ FileReturn

FileSpec == FileInit /\ [][FileNext]_vars


(***************************************************************************)
(* What the claims speak of.                                               *)
(***************************************************************************)
\* the JSON value of the text get_json returned
Rendered == AnyVal(call.res.val).val

FocusType == SiteType(focus.site)
FocusField == FieldOf(FocusType, focus.fld)
\* the struct at the focus in model v, and the field under test in it
AtFocus(v) == ValAt("JSONNLP", focus.site, v)
\* the JSON object at the focus in the JSON value j
ObjAtFocus(j) == SubAt("JSONNLP", focus.site, j)

\* the zero value of a field's type
ZeroOf(f) == IF f.kind = "struct" THEN Base(f.of, "zero") ELSE DefaultOf(f.kind)

\* the string fields without skip_serializing_if, and the lists without
\* #[serde(default)], by struct and field name
AlwaysEmittedStrings ==
    {<<"Token", "text">>, <<"Token", "lemma">>, <<"Dependency", "lab">>,
     <<"Attribute", "lab">>, <<"Attribute", "val">>}
RequiredLists ==
    {<<"CoreferenceRepresentantive", "tokens">>, <<"CoreferenceReferents", "tokens">>,
     <<"Coreference", "referents">>, <<"Scope", "gov">>, <<"Scope", "dep">>,
     <<"Scope", "terminals">>}
TokenRequired == {"id", "sentence_id", "text", "lemma", "features"}

StringLaw(x, obj, k) ==
    IF x = "" THEN ~HasKey(obj, k) ELSE HasKey(obj, k) /\ Member(obj, k) = JStr(x)

\* a law of rendering, of one field with value x of struct T rendered as obj
FieldLaw(law, T, f, x, obj) ==
    CASE law = "omission" -> f.kind = "str" => StringLaw(x, obj, f.wire)
      [] law = "omission but required" ->
            f.kind = "str" =>
                IF <<T, f.name>> \in AlwaysEmittedStrings
                THEN HasKey(obj, f.wire) /\ Member(obj, f.wire) = JStr(x)
                ELSE StringLaw(x, obj, f.wire)
      [] law = "non-omission" -> f.kind # "str" => HasKey(obj, f.wire)

\* the law holds of every field of struct v of type T rendered as obj, and
\* of every struct within it
RECURSIVE Holds(_, _, _, _)
Holds(law, T, v, obj) ==
    \A f \in Range(Fields(T)) :
        /\ FieldLaw(law, T, f, v[f.name], obj)
        /\ f.kind = "struct" =>
              /\ HasKey(obj, f.wire)
              /\ Holds(law, f.of, v[f.name], Member(obj, f.wire))
        /\ (f.kind = "vec" /\ f.of # "u64") =>
              /\ HasKey(obj, f.wire)
              /\ Len(Member(obj, f.wire).c) = Len(v[f.name])
              /\ \A i \in 1..Len(v[f.name]) :
                    Holds(law, f.of, v[f.name][i], Member(obj, f.wire).c[i])

\* no String of struct v of type T, or of a struct within it, is empty
RECURSIVE NoEmptyString(_, _)
NoEmptyString(T, v) ==
    \A f \in Range(Fields(T)) :
        CASE f.kind = "str" -> v[f.name] # ""
          [] f.kind = "struct" -> NoEmptyString(f.of, v[f.name])
          [] f.kind = "vec" /\ f.of # "u64" ->
                \A i \in 1..Len(v[f.name]) : NoEmptyString(f.of, v[f.name][i])
          [] OTHER -> TRUE

\* C1: for every model whose strings are all non-empty, from_string of the
\* text get_json returns succeeds and returns a model equal to it.
C1_RoundTrip ==
    (call.op = "from_string" /\ call.tw = NoTweak /\ NoEmptyString("JSONNLP", m))
        => (call.res.kind = "Ok" /\ call.res.val = m)

\* C2, as stated: every string field of every struct is left out of the
\* rendered object when it is empty and is there with its value otherwise.
C2_OmitsEveryEmptyString ==
    call.op = "get_json" => Holds("omission", "JSONNLP", m, Rendered)

\* C2, amended: that holds of every string field but Token.text,
\* Token.lemma, Dependency.lab, Attribute.lab and Attribute.val, which are
\* in the rendered object with their value also when they are empty.
C2_OmitsEmptyOptionalStrings ==
    call.op = "get_json" => Holds("omission but required", "JSONNLP", m, Rendered)

C2_Witness ==
    /\ call.op = "get_json"
    /\ focus.site = <<"docs", "token_list">>
    /\ AtFocus(m).text = "" /\ AtFocus(m).xpos = ""
    /\ HasKey(ObjAtFocus(Rendered), "text")
    /\ Member(ObjAtFocus(Rendered), "text") = JStr("")
    /\ ~HasKey(ObjAtFocus(Rendered), "xpos")

\* C3: every field that is an integer, a float, a boolean, a list or a
\* nested struct has its key in the rendered object, whatever its value.
C3_NonOmission ==
    call.op = "get_json" => Holds("non-omission", "JSONNLP", m, Rendered)

C3_Witness ==
    /\ call.op = "get_json"
    /\ focus.site = <<"docs", "triples">>
    /\ focus.base = "zero"
    /\ AtFocus(m).clause_id = <<>> /\ AtFocus(m).rel = 0 /\ ~AtFocus(m).directional
    /\ Member(ObjAtFocus(Rendered), "clauseID") = JArr(<<>>)
    /\ Member(ObjAtFocus(Rendered), "rel") = JInt(0)
    /\ Member(ObjAtFocus(Rendered), "directional") = JBool(FALSE)

\* the inputs of claim C4: a text that is not well-formed JSON, a Token
\* without id, text or lemma, a Dependency without lab, gov or dep
IsMalformedCase ==
    \/ call.tw.kind \in {"cut", "garble", "trail"}
    \/ /\ call.tw.kind = "drop"
       /\ FocusField.wire \in call.tw.keys
       /\ \/ FocusType = "Token" /\ focus.fld \in {"id", "text", "lemma"}
          \/ FocusType = "Dependency" /\ focus.fld \in {"lab", "gov", "dep"}

\* C4: from_string returns a MalformedInput error for a text that is not
\* well-formed JSON or that lacks a required field of a Token or Dependency.
C4_MalformedIsReported ==
    (call.op = "from_string" /\ IsMalformedCase) => call.res.kind = "MalformedInput"

\* the Token or TokenFeatures read from a text without the keys of call.tw
\* has the zero value in each field whose key was left out and the value of
\* m in the others
DroppedAreZero ==
    /\ call.res.kind = "Ok"
    /\ \A f \in Range(Fields(FocusType)) :
          AtFocus(call.res.val)[f.name] =
              IF f.wire \in call.tw.keys THEN ZeroOf(f) ELSE AtFocus(m)[f.name]

\* C5, as stated: a Token with id, text and lemma and without any of its
\* other fields is read, the fields left out taking their zero values.
C5_TokenNeedsIdTextLemma ==
    (call.op = "from_string" /\ call.tw.kind = "drop" /\ FocusType = "Token"
        /\ call.tw.keys \cap {"id", "text", "lemma"} = {})
        => DroppedAreZero

\* C5, amended: a Token with id, sentence_id, text, lemma and features and
\* without any of its other fields is read, the fields left out taking
\* their zero values, and so is a features object without any of its
\* fields; a Token without sentence_id or without features yields no model.
C5_TokenDefaulting ==
    (call.op = "from_string" /\ call.tw.kind = "drop"
        /\ FocusType \in {"Token", "TokenFeatures"})
        => IF FocusType = "Token" /\ call.tw.keys \cap TokenRequired # {}
           THEN call.res.kind # "Ok"
           ELSE DroppedAreZero

C5_Witness ==
    /\ call.op = "from_string" /\ call.tw.kind = "drop" /\ FocusType = "Token"
    /\ {"xpos", "xpos_prob", "frameID", "lang"} \subseteq call.tw.keys
    /\ AtFocus(m).xpos_prob = Fin(5) /\ AtFocus(m).frame_id = 7
    /\ call.res.kind = "Ok"
    /\ AtFocus(call.res.val).xpos_prob = Fin(0)
    /\ AtFocus(call.res.val).frame_id = 0
    /\ AtFocus(call.res.val).lang = ""
    /\ AtFocus(call.res.val).text = AtFocus(m).text

\* a text with every key of the struct at the focus but that of the list
\* under test
IsListLeftOut ==
    /\ call.op = "from_string" /\ call.tw.kind = "drop"
    /\ focus.base = "full"
    /\ FocusField.kind = "vec"
    /\ call.tw.keys = {FocusField.wire}

\* C6, as stated: an object without the key of a list field, and with all
\* its other keys, is read, the list being empty.
C6_EveryListDefaults ==
    IsListLeftOut
        => (call.res.kind = "Ok" /\ AtFocus(call.res.val)[focus.fld] = <<>>)

\* C6, amended: that holds of every list field but the tokens of a
\* coreference representative and of a referent, Coreference.referents and
\* Scope.gov, dep and terminals; an object without one of these yields no
\* model.
C6_ListDefaulting ==
    IsListLeftOut
        => IF <<FocusType, focus.fld>> \in RequiredLists
           THEN call.res.kind # "Ok"
           ELSE /\ call.res.kind = "Ok"
                /\ AtFocus(call.res.val)[focus.fld] = <<>>
                /\ \A f \in Range(Fields(FocusType)) :
                      f.name # focus.fld =>
                          AtFocus(call.res.val)[f.name] = AtFocus(m)[f.name]

C6_Witness ==
    /\ IsListLeftOut
    /\ FocusType = "Sentence" /\ focus.fld = "tokens"
    /\ AtFocus(m).tokens = <<3>>
    /\ call.res.kind = "Ok"
    /\ AtFocus(call.res.val).tokens = <<>>

\* the JSON type of value j differs from the declared type of a field, in
\* one of the ways claim C7 lists
IsMismatch(f, j) ==
    \/ j.t = "null"
    \/ j.t = "str" /\ f.kind \in {"u64", "u8", "f64", "bool"}
    \/ j.t \in {"int", "flt", "true", "false"} /\ f.kind = "str"
    \/ j.t \in {"str", "int", "flt", "true", "false"} /\ f.kind = "vec"

\* C7: a value of another JSON type than the field's makes from_string
\* fail with MalformedInput.
C7_MismatchIsMalformedInput ==
    (call.op = "from_string" /\ call.tw.kind = "set"
        /\ IsMismatch(FocusField, call.tw.val))
        => call.res.kind = "MalformedInput"

\* what a field of type kind is read as from JSON value j
ReadAs(kind, j) ==
    CASE kind = "str" -> j.s
      [] kind = "f64" -> IF j.t = "int" THEN Fin(10 * j.n) ELSE Fin(j.n)

IsNamed(T, fld) ==
    \/ T = "Meta" /\ fld = "author"
    \/ T = "Token" /\ fld = "prop_id_prob"
WireName(T) == IF T = "Meta" THEN "DC.author" ELSE "propIDProbability"

\* C8: Meta.author is rendered under the key "DC.author" and
\* Token.prop_id_prob under "propIDProbability", and from_string reads them
\* from these keys and from no other.
C8_NamingFidelity ==
    IsNamed(FocusType, focus.fld) =>
        /\ call.op = "get_json" =>
              LET obj == ObjAtFocus(Rendered)
                  x == AtFocus(m)[focus.fld] IN
              /\ Keys(obj) \cap {"author", "prop_id_prob"} = {}
              /\ FocusType = "Meta" => StringLaw(x, obj, "DC.author")
              /\ FocusType = "Token" =>
                    /\ HasKey(obj, "propIDProbability")
                    /\ Member(obj, "propIDProbability") =
                          IF x.cls = "fin" THEN JFlt(x.m) ELSE JNull
        /\ (call.op = "from_string" /\ call.res.kind = "Ok") =>
              LET obj == ObjAtFocus(AnyVal(call.text).val) IN
              AtFocus(call.res.val)[focus.fld] =
                  IF HasKey(obj, WireName(FocusType))
                  THEN ReadAs(FocusField.kind, Member(obj, WireName(FocusType)))
                  ELSE DefaultOf(FocusField.kind)

C8_Witness ==
    /\ call.op = "from_string" /\ call.tw.kind = "rekey"
    /\ focus.site = <<"meta">> /\ focus.fld = "author"
    /\ m.meta.author = "y"
    /\ Member(ObjAtFocus(AnyVal(call.text).val), "author") = JStr("y")
    /\ call.res.kind = "Ok"
    /\ call.res.val.meta.author = ""

\* C9: when from_file has returned, the file, if it was opened, is closed,
\* and the result is a complete model, an IOError or a MalformedInput.
C9_ScopedRelease ==
    fpc = "returned" =>
        /\ handle = IF stream.exists THEN "closed" ELSE "none"
        /\ fres.kind \in {"Ok", "IOError", "MalformedInput"}
        /\ ~stream.exists => fres.kind = "IOError"
        /\ fres.kind = "Ok" =>
              /\ Decode(stream.content).ok
              /\ fres.val = Decode(stream.content).val
              /\ DOMAIN fres.val = FieldNames("JSONNLP")

C9_Witness ==
    /\ fpc = "returned" /\ handle = "closed"
    /\ fres.kind = "IOError" /\ delivered > 0 /\ ~eos

\* C10, as stated: a model or a MalformedInput comes only after the read
\* that returns end-of-file.
C10_DecodesAfterEndOfFile ==
    (fpc \in {"decided", "returned"} /\ fres.kind \in {"Ok", "MalformedInput"})
        => eos

\* C10, amended: from_file decodes while it reads.  A model comes only
\* after end-of-file and is the model from_string returns for the content;
\* a MalformedInput comes as soon as the decoder meets an error in what was
\* delivered, the rest being left unread, or at end-of-file; a read that
\* fails gives an IOError unless the decoder has met an error before it.
C10_DecodesWhileReading ==
    (fpc \in {"decided", "returned"} /\ stream.exists) =>
        LET d == Decode(stream.content) IN
        /\ fres.kind = "Ok" =>
              /\ eos /\ delivered = Len(stream.content)
              /\ from_string(stream.content) = Result("Ok", fres.val)
        /\ fres.kind = "MalformedInput" =>
              /\ ~d.ok
              /\ IF eos THEN d.need = Len(stream.content) + 1
                 ELSE d.need <= delivered /\ delivered < d.need + ChunkLen
        /\ fres.kind = "IOError" => (d.need > delivered /\ ~eos)

C10_Witness ==
    /\ fpc = "returned" /\ fres.kind = "MalformedInput"
    /\ ~eos /\ delivered + ChunkLen <= Len(stream.content)

====
